---- MODULE Spec2Model ----
(***************************************************************************)
(* A model of the CLOCK-Pro cache of src/src/lib.rs: ClockProCache and the *)
(* TokenRing it keeps its entries on.                                      *)
(*                                                                         *)
(* The struct ClockProCache is the record variable `cache`, its ring the   *)
(* record cache.ring.  A public operation is called from pc = "idle"; the  *)
(* read-only ones are one step, insert runs the hand rules one block of    *)
(* straight-line code per step: pc is the block to run next and `stack`    *)
(* the blocks to come back to (the call stack of the mutual recursion      *)
(* run_hand_cold -> run_hand_hot -> run_hand_test -> run_hand_cold).       *)
(* While pc # "idle" exactly one step is enabled, so an insert is never    *)
(* interleaved with anything.  `call` is the operation in flight or last   *)
(* returned, with its arguments and result, and `steps` the number of      *)
(* blocks the insert in flight has run, at most MaxSteps.                  *)
(*                                                                         *)
(* Tokens and keys are names to the program: it compares them, follows     *)
(* them and stores them, and never looks inside.  The state is kept up to  *)
(* a renaming of both (Renumber, Rekey): one state stands for all the      *)
(* states that differ from it by the names alone.                          *)
(*                                                                         *)
(* A panic of the program (an index into the ring's slab for a token that  *)
(* is not in it, "Slab full", a failed assert!, a usize subtraction below  *)
(* zero) and a read of a slot of the Vec whose token is not in the ring    *)
(* (uninitialised after set_len, or scrubbed by meta_del) end the run in   *)
(* pc = "fatal" with cache.fatal naming the cause.  Keys and values are    *)
(* plain data here (integers, nothing to drop): the assignment of a node   *)
(* to a slot (meta_add, line 165) drops what the slot held, which for a    *)
(* slot never written is uninitialised memory, and that drop does nothing  *)
(* for such types.                                                         *)
(***************************************************************************)
EXTENDS Integers, Sequences, FiniteSets, TLC

\* ------------------------------------------------------------ bounds
MaxCapacity == 3
MaxTestCapacity == 1
NumKeys == 5
NumValueKeys == 4
NumValues == 2
MaxStack == 40
MaxSteps == 200
MaxScan == 5

\* the keys and the values the operations are called with
Keys == 1..NumKeys
Values == 1..NumValues

\* ------------------------------------------------------------ constants
\* Option::None of Node.value; Some(v) is v itself, v in Values.
None == 0
\* !0 in the source: any value that is no token.
TOKEN_THUMBSTONE == -1
MinCapacity == 3

NODETYPE_EMPTY == {"EMPTY"}
NODETYPE_HOT == {"HOT"}
NODETYPE_COLD == {"COLD"}
NODETYPE_TEST == {"TEST"}
NODETYPE_MASK == NODETYPE_EMPTY \cup NODETYPE_HOT \cup NODETYPE_COLD \cup NODETYPE_TEST
NODETYPE_REFERENCE == {"REFERENCE"}

\* bitflags: intersects
intersects(flags, other) == flags \cap other # {}

\* The contents of a slot of the Vec after set_len and before its first write.
\* No step reads it: a read of a slot whose token is not in the ring is fatal.
Uninit == [key |-> 0, value |-> None, node_type |-> {}]

VARIABLES cache, pc, stack, call, steps, hist
vars == <<cache, pc, stack, call, steps, hist>>

\* ------------------------------------------------------------ TokenRing
\* ring.nodes: the occupied entries of the ring's Slab, token -> (next, prev)
\* ring.free : the Slab's free list, the next token to hand out first.  A
\*             removed token goes to its front; fresh tokens come in order.
with_capacity(capacity) ==
    [head |-> TOKEN_THUMBSTONE, tail |-> TOKEN_THUMBSTONE,
     nodes |-> <<>>, free |-> [i \in 1..capacity |-> i - 1]]

len(ring) == Cardinality(DOMAIN ring.nodes)

InRing(ring, token) == token \in DOMAIN ring.nodes

\* next_for_token returns without a panic
next_ok(ring, token) ==
    /\ InRing(ring, token)
    /\ ring.nodes[token].next = TOKEN_THUMBSTONE => ring.head # TOKEN_THUMBSTONE

next_for_token(ring, token) ==
    LET next == ring.nodes[token].next
    IN  IF next = TOKEN_THUMBSTONE THEN ring.head ELSE next

\* prev_for_token returns without a panic
prev_ok(ring, token) ==
    /\ InRing(ring, token)
    /\ ring.nodes[token].prev = TOKEN_THUMBSTONE => ring.tail # TOKEN_THUMBSTONE

prev_for_token(ring, token) ==
    LET prev == ring.nodes[token].prev
    IN  IF prev = TOKEN_THUMBSTONE THEN ring.tail ELSE prev

\* a function without the argument x
Without(f, x) == [y \in DOMAIN f \ {x} |-> f[y]]

\* a function with the new argument x
With(f, x, v) == [y \in DOMAIN f \cup {x} |-> IF y = x THEN v ELSE f[y]]

remove(ring, token) ==
    LET prev == ring.nodes[token].prev
        next == ring.nodes[token].next
        r1 == IF prev # TOKEN_THUMBSTONE
              THEN [ring EXCEPT !.nodes[prev].next = next]
              ELSE [ring EXCEPT !.head = next]
        r2 == IF next # TOKEN_THUMBSTONE
              THEN [r1 EXCEPT !.nodes[next].prev = prev]
              ELSE [r1 EXCEPT !.tail = prev]
    IN  [r2 EXCEPT !.nodes = Without(r2.nodes, token),
                   !.free = <<token>> \o r2.free]

\* insert_after returns without a panic
insert_after_ok(ring, to) ==
    /\ ring.free # <<>>
    /\ DOMAIN ring.nodes # {} => InRing(ring, to)

\* the token insert_after returns
insert_after_token(ring) == Head(ring.free)

\* the ring insert_after leaves
insert_after(ring, to) ==
    LET token == Head(ring.free)
        free == Tail(ring.free)
    IN  IF DOMAIN ring.nodes = {}
        THEN [head |-> token, tail |-> token, free |-> free,
              nodes |-> With(ring.nodes, token,
                             [prev |-> TOKEN_THUMBSTONE, next |-> TOKEN_THUMBSTONE])]
        ELSE LET old_second == ring.nodes[to].prev
             IN  IF old_second = TOKEN_THUMBSTONE
                 THEN LET tail == ring.tail
                          n1 == With(ring.nodes, token,
                                     [prev |-> tail, next |-> TOKEN_THUMBSTONE])
                      IN  [ring EXCEPT !.nodes = [n1 EXCEPT ![tail].next = token],
                                       !.tail = token, !.free = free]
                 ELSE LET n1 == With(ring.nodes, token,
                                     [prev |-> old_second, next |-> to])
                      IN  [ring EXCEPT !.nodes = [n1 EXCEPT ![old_second].next = token,
                                                            ![to].prev = token],
                                       !.free = free]

\* ------------------------------------------------------------ ClockProCache
\* The value of `cache` before a constructor has run: no object yet.
NoCache ==
    [capacity |-> 0, test_capacity |-> 0, cold_capacity |-> 0,
     map |-> <<>>, ring |-> with_capacity(0), slab |-> <<>>,
     hand_hot |-> 0, hand_cold |-> 0, hand_test |-> 0,
     count_hot |-> 0, count_cold |-> 0, count_test |-> 0,
     fatal |-> "none"]

\* call.absent and call.test are history: whether the key index lacked the
\* key when insert was called, and whether it had it as a TEST entry.  call.res is the value returned: a BOOLEAN of insert and
\* contains_key, the value or None of get and get_mut.
NoCall == [op |-> "none", key |-> 0, value |-> None, node_type |-> {},
           absent |-> FALSE, test |-> FALSE, res |-> None]

\* hist is history, kept for the properties that speak of a run of calls and
\* read by no step of the program.  hist.mode says what is kept (nothing with
\* "none"), and the other fields are those of that mode, see AtInsert.
NoHist(mode) == [mode |-> mode, key |-> 0, value |-> None, n |-> 0, keys |-> {}]

InitWith(mode) ==
    /\ cache = NoCache
    /\ pc = "start"
    /\ stack = <<>>
    /\ call = NoCall
    /\ steps = 0
    /\ hist = NoHist(mode)

Init == InitWith("none")

\* The tokens of the ring from head to tail (n of them are left to walk).
RECURSIVE Walk(_, _, _)
Walk(ring, token, n) ==
    IF n = 0 \/ token = TOKEN_THUMBSTONE
    THEN <<>>
    ELSE <<token>> \o Walk(ring, ring.nodes[token].next, n - 1)

\* A Token is a name: the code compares tokens and follows them, nothing else,
\* and the Slab hands them out from its free list.  States that differ by a
\* renaming of the tokens behave alike, and one of each class is kept: the
\* tokens of the ring are numbered from 0 in ring order from the head, the
\* free tokens after them in the order of the free list.  Everything that
\* holds a token (the ring's links, the slots, the key index, the hands) is
\* renamed with it.
Renumber(c) ==
    LET n == len(c.ring)
        order == Walk(c.ring, c.ring.head, n) \o c.ring.free
        cap == Len(order)
        old(i) == order[i + 1]
        new_(t) == IF \E i \in 1..cap : order[i] = t
                   THEN CHOOSE i \in 0..(cap - 1) : order[i + 1] = t
                   ELSE t
    IN  [c EXCEPT
           !.ring = [head |-> IF n = 0 THEN TOKEN_THUMBSTONE ELSE 0,
                     tail |-> IF n = 0 THEN TOKEN_THUMBSTONE ELSE n - 1,
                     nodes |-> [i \in 0..(n - 1) |->
                                  [prev |-> IF i = 0 THEN TOKEN_THUMBSTONE ELSE i - 1,
                                   next |-> IF i = n - 1 THEN TOKEN_THUMBSTONE ELSE i + 1]],
                     free |-> [i \in 1..(cap - n) |-> n + i - 1]],
           !.slab = [i \in 0..(cap - 1) |-> c.slab[old(i)]],
           !.map = [k \in DOMAIN c.map |-> new_(c.map[k])],
           !.hand_hot = new_(c.hand_hot),
           !.hand_cold = new_(c.hand_cold),
           !.hand_test = new_(c.hand_test)]

\* the members of Keys in a sequence, each once, in the order they come first
RECURSIVE FirstKeys(_, _)
FirstKeys(seq, seen) ==
    IF seq = <<>>
    THEN <<>>
    ELSE IF Head(seq) \in Keys \ seen
    THEN <<Head(seq)>> \o FirstKeys(Tail(seq), seen \cup {Head(seq)})
    ELSE FirstKeys(Tail(seq), seen)

\* the members of a set of keys, smallest first
RECURSIVE SetToSeq(_)
SetToSeq(set) ==
    IF set = {}
    THEN <<>>
    ELSE LET k == CHOOSE x \in set : \A y \in set : x <= y
         IN  <<k>> \o SetToSeq(set \ {k})

\* A key is a name too (K: Eq + Hash + Clone).  The keys are numbered from 1
\* in the order they come first in: the slots in token order (the ring from
\* its head, then the free slots), the key of the call, the keys of the
\* history, the other keys.  Returns the cache, the call and the history
\* under that renaming.
Rekey(c, cl, h) ==
    LET cap == Cardinality(DOMAIN c.slab)
        order == FirstKeys([i \in 1..cap |-> c.slab[i - 1].key] \o <<cl.key, h.key>>
                               \o SetToSeq(h.keys) \o [k \in 1..NumKeys |-> k], {})
        new_(k) == IF k \in Keys THEN CHOOSE i \in Keys : order[i] = k ELSE k
        old(i) == order[i]
    IN  [cache |-> [c EXCEPT
                      !.slab = [t \in DOMAIN c.slab |->
                                  [c.slab[t] EXCEPT !.key = new_(@)]],
                      !.map = [k \in {new_(j) : j \in DOMAIN c.map} |-> c.map[old(k)]]],
         call |-> [cl EXCEPT !.key = new_(@)],
         hist |-> [h EXCEPT !.key = new_(@), !.keys = {new_(k) : k \in @}]]

\* the step leaves the cache c, the call cl and the history h, up to the
\* names; a step that neither adds nor removes a token or a key sets cache'
\* and call' itself
Leaves(c, cl, h) ==
    LET s == Rekey(Renumber(c), cl, h)
    IN  /\ cache' = s.cache
        /\ call' = s.call
        /\ hist' = s.hist

\* the program stops at a panic or at a read of a slot that holds no entry
Fatal(why) ==
    /\ cache' = [cache EXCEPT !.fatal = why]
    /\ pc' = "fatal"
    /\ UNCHANGED <<stack, call, hist>>

\* call the block `callee`, to come back to the block `back`
Call(callee, back) ==
    IF Len(stack) >= MaxStack
    THEN Fatal("stack overflow")
    ELSE /\ pc' = callee
         /\ stack' = <<back>> \o stack
         /\ UNCHANGED <<cache, call, hist>>

\* return from a hand rule, leaving the cache as c
Return(c) ==
    /\ cache' = c
    /\ UNCHANGED <<call, hist>>
    /\ pc' = Head(stack)
    /\ stack' = Tail(stack)

new_with_test_capacity(capacity, test_capacity) ==
    /\ pc = "start"
    /\ call' = [NoCall EXCEPT !.op = "new"]
    /\ UNCHANGED <<stack, hist>>
    /\ IF capacity < MinCapacity
       THEN /\ pc' = "error"
            /\ UNCHANGED cache
       ELSE /\ pc' = "idle"
            /\ cache' = [capacity |-> capacity,
                         test_capacity |-> test_capacity,
                         cold_capacity |-> capacity,
                         map |-> <<>>,
                         ring |-> with_capacity(capacity + test_capacity),
                         slab |-> [t \in 0..(capacity + test_capacity - 1) |-> Uninit],
                         hand_hot |-> 0, hand_cold |-> 0, hand_test |-> 0,
                         count_hot |-> 0, count_cold |-> 0, count_test |-> 0,
                         fatal |-> "none"]
    /\ steps' = 0

\* a new that asks for no test capacity
new_without_test(capacity) == new_with_test_capacity(capacity, 0)

new(capacity) == new_with_test_capacity(capacity, capacity)

\* the call record of an operation that has returned res
Returned(op, key, value, absent, res) ==
    [op |-> op, key |-> key, value |-> value, node_type |-> {},
     absent |-> absent, test |-> FALSE, res |-> res]

\* ------------------------------------------------------------ history
\* the keys of the resident entries (HOT or COLD, with a value)
Residents(c) == {k \in DOMAIN c.map : c.slab[c.map[k]].value # None}

\* the keys of the HOT entries
HotKeys(c) == {k \in DOMAIN c.map : intersects(c.slab[c.map[k]].node_type, NODETYPE_HOT)}

\* the history after a lookup (get, get_mut, contains_key)
AtLookup(h) ==
    IF h.mode = "none"
    THEN h
    ELSE IF h.mode = "scan"
    THEN [NoHist(h.mode) EXCEPT !.n = -1]
    ELSE NoHist(h.mode)

\* The histories an insert(key, value) called on the cache c may leave.
\* "fidelity": hist.key was inserted last with hist.value, and hist.n inserts
\*    of other keys and nothing else have been called since; any insert may
\*    start the count anew.
\* "resist": hist.key was HOT when the first of a run of inserts of keys the
\*    index lacked was called, and the run may go on for hist.n more inserts:
\*    capacity - cold_capacity of them in all, as it was at that first call.
\* "scan": the calls since the constructor are hist.n inserts of keys the
\*    index lacked (MaxScan for as many or more), hist.key the first of them;
\*    or they are four such inserts and an insert of hist.key with hist.value
\*    (hist.n = -1, hist.value a value); or anything else (hist.n = -1).
\* "evict": the insert last called was of a key not resident; hist.keys are
\*    the keys resident at that call, hist.n their number.
AtInsert(h, c, key, value) ==
    IF h.mode = "fidelity"
    THEN {[h EXCEPT !.key = key, !.value = value, !.n = 0]}
         \cup (IF h.key \notin {0, key} /\ h.n < c.capacity - 1
               THEN {[h EXCEPT !.n = @ + 1]}
               ELSE {})
    ELSE IF h.mode = "resist"
    THEN IF key \in DOMAIN c.map
         THEN {NoHist(h.mode)}
         ELSE LET start == IF c.capacity - c.cold_capacity >= 1
                           THEN {[h EXCEPT !.key = k,
                                           !.n = c.capacity - c.cold_capacity - 1] :
                                 k \in HotKeys(c)}
                           ELSE {}
                  go_on == IF h.key # 0 /\ h.n >= 1
                           THEN {[h EXCEPT !.n = @ - 1]}
                           ELSE {}
              IN  IF start \cup go_on = {} THEN {NoHist(h.mode)} ELSE start \cup go_on
    ELSE IF h.mode = "scan"
    THEN IF h.n >= 0 /\ key \notin DOMAIN c.map
         THEN {[h EXCEPT !.key = IF h.n = 0 THEN key ELSE @,
                         !.n = IF @ < MaxScan THEN @ + 1 ELSE @]}
         ELSE IF h.n = 4 /\ key = h.key
         THEN {[h EXCEPT !.n = -1, !.value = value]}
         ELSE {[NoHist(h.mode) EXCEPT !.n = -1]}
    ELSE IF h.mode = "evict"
    THEN IF key \in Residents(c)
         THEN {NoHist(h.mode)}
         ELSE {[h EXCEPT !.keys = Residents(c), !.n = c.count_hot + c.count_cold]}
    ELSE {h}

\* ------------------------------------------------------------ operations
\* a lookup that sets REFERENCE on a TEST entry too
Lookup_marks_test(op, key) ==
    /\ pc = "idle"
    /\ UNCHANGED <<pc, stack>>
    /\ hist' = AtLookup(hist)
    /\ IF key \notin DOMAIN cache.map
       THEN /\ call' = Returned(op, 0, None, FALSE, None)
            /\ UNCHANGED cache
       ELSE LET token == cache.map[key]
                node == cache.slab[token]
            IN  /\ cache' = [cache EXCEPT !.slab[token].node_type =
                                              @ \cup NODETYPE_REFERENCE]
                /\ call' = Returned(op, 0, None, FALSE, node.value)
    /\ steps' = 0

\* get and get_mut: the same code but for the kind of borrow returned.  The
\* call record of a lookup keeps what it returned, not the key it was for.
Lookup(op, key) ==
    /\ pc = "idle"
    /\ UNCHANGED <<pc, stack>>
    /\ hist' = AtLookup(hist)
    /\ IF key \notin DOMAIN cache.map
       THEN /\ call' = Returned(op, 0, None, FALSE, None)
            /\ UNCHANGED cache
       ELSE LET token == cache.map[key]
                node == cache.slab[token]
            IN  IF node.value = None
                THEN /\ call' = Returned(op, 0, None, FALSE, None)
                     /\ UNCHANGED cache
                ELSE /\ cache' = [cache EXCEPT !.slab[token].node_type =
                                                   @ \cup NODETYPE_REFERENCE]
                     /\ call' = Returned(op, 0, None, FALSE, node.value)
    /\ steps' = 0

get_mut(key) == Lookup("get_mut", key)

get(key) == Lookup("get", key)

\* a contains_key that sets REFERENCE as get does
contains_key_sets_reference(key) ==
    /\ pc = "idle"
    /\ UNCHANGED <<pc, stack>>
    /\ hist' = AtLookup(hist)
    /\ call' = Returned("contains_key", 0, None, FALSE,
                        IF key \notin DOMAIN cache.map
                        THEN FALSE
                        ELSE cache.slab[cache.map[key]].value # None)
    /\ cache' = IF key \notin DOMAIN cache.map \/ cache.slab[cache.map[key]].value = None
                THEN cache
                ELSE [cache EXCEPT !.slab[cache.map[key]].node_type =
                                       @ \cup NODETYPE_REFERENCE]
    /\ steps' = 0

contains_key(key) ==
    /\ pc = "idle"
    /\ UNCHANGED <<cache, pc, stack>>
    /\ hist' = AtLookup(hist)
    /\ call' = Returned("contains_key", 0, None, FALSE,
                        IF key \notin DOMAIN cache.map
                        THEN FALSE
                        ELSE cache.slab[cache.map[key]].value # None)
    /\ steps' = 0

\* meta_del with the bug of hand_cold left on the token it removes
meta_del_leaves_hand_cold(c, token) ==
    LET mentry == c.slab[token]
        c1 == [c EXCEPT !.slab[token].node_type = (@ \ NODETYPE_MASK) \cup NODETYPE_EMPTY,
                        !.slab[token].value = None,
                        !.map = Without(@, mentry.key)]
        c2 == IF token = c1.hand_hot
              THEN [c1 EXCEPT !.hand_hot = prev_for_token(c1.ring, c1.hand_hot)]
              ELSE c1
        c4 == IF token = c2.hand_test
              THEN [c2 EXCEPT !.hand_test = prev_for_token(c2.ring, c2.hand_test)]
              ELSE c2
    IN  [c4 EXCEPT !.ring = remove(c4.ring, token)]

\* meta_del with the bug of a key left in the index
meta_del_keeps_key(c, token) ==
    LET c1 == [c EXCEPT !.slab[token].node_type = (@ \ NODETYPE_MASK) \cup NODETYPE_EMPTY,
                        !.slab[token].value = None]
        c2 == IF token = c1.hand_hot
              THEN [c1 EXCEPT !.hand_hot = prev_for_token(c1.ring, c1.hand_hot)]
              ELSE c1
        c3 == IF token = c2.hand_cold
              THEN [c2 EXCEPT !.hand_cold = prev_for_token(c2.ring, c2.hand_cold)]
              ELSE c2
        c4 == IF token = c3.hand_test
              THEN [c3 EXCEPT !.hand_test = prev_for_token(c3.ring, c3.hand_test)]
              ELSE c3
    IN  [c4 EXCEPT !.ring = remove(c4.ring, token)]

\* meta_del reads the slot of a token that is in the ring
meta_del_ok(c, token) == InRing(c.ring, token)

meta_del(c, token) ==
    LET mentry == c.slab[token]
        c1 == [c EXCEPT !.slab[token].node_type = (@ \ NODETYPE_MASK) \cup NODETYPE_EMPTY,
                        !.slab[token].value = None,
                        !.map = Without(@, mentry.key)]
        c2 == IF token = c1.hand_hot
              THEN [c1 EXCEPT !.hand_hot = prev_for_token(c1.ring, c1.hand_hot)]
              ELSE c1
        c3 == IF token = c2.hand_cold
              THEN [c2 EXCEPT !.hand_cold = prev_for_token(c2.ring, c2.hand_cold)]
              ELSE c2
        c4 == IF token = c3.hand_test
              THEN [c3 EXCEPT !.hand_test = prev_for_token(c3.ring, c3.hand_test)]
              ELSE c3
    IN  [c4 EXCEPT !.ring = remove(c4.ring, token)]

\* overwrite with the bug of a value that is not stored
overwrite_keeps_value(mentry, value) ==
    [mentry EXCEPT !.node_type = @ \cup NODETYPE_REFERENCE]

\* insert, lines 141-142: a resident key takes the new value
overwrite(mentry, value) ==
    [mentry EXCEPT !.value = value,
                   !.node_type = @ \cup NODETYPE_REFERENCE]

\* grow_cold_capacity with the bug of no upper clamp
grow_cold_capacity_unclamped(c) == [c EXCEPT !.cold_capacity = @ + 1]

\* insert, lines 146-148
grow_cold_capacity(c) ==
    IF c.cold_capacity < c.capacity
    THEN [c EXCEPT !.cold_capacity = @ + 1]
    ELSE c

\* insert, lines 126-134: the arm of a key the index lacks, which adds a COLD
\* node and returns true once meta_add is back
admit_cold(key, value, absent) ==
    [op |-> "insert", key |-> key, value |-> value,
     node_type |-> NODETYPE_COLD, absent |-> absent, test |-> FALSE, res |-> TRUE]

\* admit_hot with the bug of a node that starts COLD
admit_hot_as_cold(key, value, absent) ==
    [op |-> "insert", key |-> key, value |-> value,
     node_type |-> NODETYPE_COLD, absent |-> absent, test |-> FALSE, res |-> FALSE]

\* admit_hot with the bug of returning true
admit_hot_returns_true(key, value, absent) ==
    [op |-> "insert", key |-> key, value |-> value,
     node_type |-> NODETYPE_HOT, absent |-> absent, test |-> FALSE, res |-> TRUE]

\* insert, lines 151-159: the arm of a TEST key, which adds a HOT node and
\* returns false once meta_add is back
admit_hot(key, value, absent) ==
    [op |-> "insert", key |-> key, value |-> value,
     node_type |-> NODETYPE_HOT, absent |-> absent, test |-> FALSE, res |-> FALSE]

\* was the key absent from the index when insert was called
absent_at_call(key) == key \notin DOMAIN cache.map

\* was the key a TEST entry of the index when insert was called
test_at_call(key) ==
    /\ key \in DOMAIN cache.map
    /\ intersects(cache.slab[cache.map[key]].node_type, NODETYPE_TEST)

\* the call record cl of an insert, with the history of its key
Called(cl) == [cl EXCEPT !.test = test_at_call(cl.key)]

\* insert up to its call of meta_add; meta_add starts at the block "evict"
insert(key, value) ==
    /\ pc = "idle"
    /\ \E h \in AtInsert(hist, cache, key, value) :
        IF key \notin DOMAIN cache.map
        THEN /\ Leaves(cache, Called(admit_cold(key, value, absent_at_call(key))), h)
             /\ pc' = "evict"
             /\ UNCHANGED stack
        ELSE LET token == cache.map[key]
                 mentry == cache.slab[token]
             IN  IF mentry.value # None
                 THEN /\ cache' = [cache EXCEPT !.slab[token] = overwrite(mentry, value)]
                      /\ call' = Called(Returned("insert", key, value, absent_at_call(key), FALSE))
                      /\ hist' = h
                      /\ UNCHANGED <<pc, stack>>
                 ELSE LET c1 == grow_cold_capacity(cache)
                      IN  IF c1.count_test = 0
                          THEN Fatal("count_test underflow")
                          ELSE IF ~meta_del_ok(c1, token)
                          THEN Fatal("meta_del of a token not in the ring")
                          ELSE /\ Leaves(meta_del([c1 EXCEPT !.count_test = @ - 1], token),
                                         Called(admit_hot(key, value, absent_at_call(key))), h)
                               /\ pc' = "evict"
                               /\ UNCHANGED stack
    /\ steps' = 0

\* full with the bug of a strict comparison
full_strict(c) == c.count_hot + c.count_cold > c.capacity

\* evict, line 173: the condition of its loop
full(c) == c.count_hot + c.count_cold >= c.capacity

\* the loop of evict, run by meta_add before anything else
evict ==
    /\ pc = "evict"
    /\ steps < MaxSteps
    /\ IF full(cache)
       THEN Call("run_hand_cold", "evict")
       ELSE /\ pc' = "meta_add"
            /\ UNCHANGED <<cache, stack, call, hist>>
    /\ steps' = steps + 1

\* meta_add after evict, then the end of insert: the count of the new node
\* and the return
meta_add ==
    /\ pc = "meta_add"
    /\ steps < MaxSteps
    /\ IF ~insert_after_ok(cache.ring, cache.hand_hot)
       THEN Fatal(IF cache.ring.free = <<>> THEN "Slab full"
                  ELSE "insert_after a token not in the ring")
       ELSE LET token == insert_after_token(cache.ring)
                node == [key |-> call.key, value |-> call.value,
                         node_type |-> call.node_type]
                c1 == [cache EXCEPT !.ring = insert_after(cache.ring, cache.hand_hot),
                                    !.slab[token] = node,
                                    !.map = With(@, call.key, token)]
                c2 == IF c1.hand_cold = c1.hand_hot
                      THEN [c1 EXCEPT !.hand_cold = prev_for_token(c1.ring, c1.hand_cold)]
                      ELSE c1
            IN  IF c1.hand_cold = c1.hand_hot /\ ~prev_ok(c1.ring, c1.hand_cold)
                THEN Fatal("prev_for_token of a token not in the ring")
                ELSE /\ Leaves(IF call.node_type = NODETYPE_COLD
                               THEN [c2 EXCEPT !.count_cold = @ + 1]
                               ELSE [c2 EXCEPT !.count_hot = @ + 1],
                               [call EXCEPT !.node_type = {}], hist)
                     /\ pc' = "idle"
                     /\ UNCHANGED stack
    /\ steps' = 0

\* cold_to_hot with the bug of a forgotten count_hot += 1
cold_to_hot_uncounted(c, token) ==
    [c EXCEPT !.slab[token].node_type = NODETYPE_HOT,
              !.count_cold = @ - 1]

\* cold_to_hot with the bug of a REFERENCE that stays set
cold_to_hot_keeps_reference(c, token) ==
    [c EXCEPT !.slab[token].node_type = (@ \ NODETYPE_MASK) \cup NODETYPE_HOT,
              !.count_cold = @ - 1,
              !.count_hot = @ + 1]

\* run_hand_cold, lines 184-186: a referenced COLD node becomes HOT
cold_to_hot(c, token) ==
    [c EXCEPT !.slab[token].node_type = NODETYPE_HOT,
              !.count_cold = @ - 1,
              !.count_hot = @ + 1]

\* cold_to_test with the bug of a value that is not dropped
cold_to_test_keeps_value(c, token) ==
    [c EXCEPT !.slab[token].node_type = (@ \ NODETYPE_MASK) \cup NODETYPE_TEST,
              !.count_cold = @ - 1,
              !.count_test = @ + 1]

\* run_hand_cold, lines 188-192: an unreferenced COLD node becomes TEST
cold_to_test(c, token) ==
    [c EXCEPT !.slab[token].node_type = (@ \ NODETYPE_MASK) \cup NODETYPE_TEST,
              !.slab[token].value = None,
              !.count_cold = @ - 1,
              !.count_test = @ + 1]

\* run_hand_cold, lines 179-196: the entry under hand_cold
run_hand_cold ==
    /\ pc = "run_hand_cold"
    /\ steps < MaxSteps
    /\ UNCHANGED <<stack, call, hist>>
    /\ IF ~InRing(cache.ring, cache.hand_cold)
       THEN Fatal("run_hand_cold reads a slot not in the ring")
       ELSE LET token == cache.hand_cold
                mentry == cache.slab[token]
            IN  IF intersects(mentry.node_type, NODETYPE_COLD)
                THEN IF cache.count_cold = 0
                     THEN Fatal("count_cold underflow")
                     ELSE IF intersects(mentry.node_type, NODETYPE_REFERENCE)
                     THEN /\ cache' = cold_to_hot(cache, token)
                          /\ pc' = "run_hand_cold_advance"
                     ELSE /\ cache' = cold_to_test(cache, token)
                          /\ pc' = "run_hand_cold_trim"
                ELSE /\ pc' = "run_hand_cold_advance"
                     /\ UNCHANGED cache
    /\ steps' = steps + 1

\* run_hand_cold, line 198: the condition of the loop over run_hand_test
over_test(c) == c.count_test > c.test_capacity

\* run_hand_cold, lines 197-201: the loop that runs when run_hand_test is set
run_hand_cold_trim ==
    /\ pc = "run_hand_cold_trim"
    /\ steps < MaxSteps
    /\ IF over_test(cache)
       THEN Call("run_hand_test", "run_hand_cold_trim")
       ELSE /\ pc' = "run_hand_cold_advance"
            /\ UNCHANGED <<cache, stack, call, hist>>
    /\ steps' = steps + 1

\* run_hand_cold, line 202
run_hand_cold_advance ==
    /\ pc = "run_hand_cold_advance"
    /\ steps < MaxSteps
    /\ UNCHANGED <<stack, call, hist>>
    /\ IF ~next_ok(cache.ring, cache.hand_cold)
       THEN Fatal("next_for_token(hand_cold) of a token not in the ring")
       ELSE /\ cache' = [cache EXCEPT !.hand_cold = next_for_token(cache.ring, cache.hand_cold)]
            /\ pc' = "run_hand_cold_rebalance"
    /\ steps' = steps + 1

\* run_hand_cold, line 203: the condition of the loop over run_hand_hot
over_hot(c) == c.count_hot > c.capacity - c.cold_capacity

\* run_hand_cold, lines 203-206: the loop over run_hand_hot, then the return
run_hand_cold_rebalance ==
    /\ pc = "run_hand_cold_rebalance"
    /\ steps < MaxSteps
    /\ IF cache.cold_capacity > cache.capacity
       THEN Fatal("capacity - cold_capacity underflow")
       ELSE IF over_hot(cache)
       THEN Call("run_hand_hot", "run_hand_cold_rebalance")
       ELSE Return(cache)
    /\ steps' = steps + 1

\* run_hand_hot, lines 209-211
run_hand_hot ==
    /\ pc = "run_hand_hot"
    /\ steps < MaxSteps
    /\ IF cache.hand_hot = cache.hand_test
       THEN Call("run_hand_test", "run_hand_hot_examine")
       ELSE /\ pc' = "run_hand_hot_examine"
            /\ UNCHANGED <<cache, stack, call, hist>>
    /\ steps' = steps + 1

\* hot_examine with the bug of a REFERENCE that is never cleared
hot_examine_keeps_reference(c, token) ==
    IF intersects(c.slab[token].node_type, NODETYPE_REFERENCE)
    THEN c
    ELSE [c EXCEPT !.slab[token].node_type = (@ \ NODETYPE_MASK) \cup NODETYPE_COLD,
                   !.count_hot = @ - 1,
                   !.count_cold = @ + 1]

\* run_hand_hot, lines 215-222: a HOT node loses REFERENCE, or becomes COLD
hot_examine(c, token) ==
    IF intersects(c.slab[token].node_type, NODETYPE_REFERENCE)
    THEN [c EXCEPT !.slab[token].node_type = @ \ NODETYPE_REFERENCE]
    ELSE [c EXCEPT !.slab[token].node_type = (@ \ NODETYPE_MASK) \cup NODETYPE_COLD,
                   !.count_hot = @ - 1,
                   !.count_cold = @ + 1]

\* run_hand_hot, lines 212-226: the entry under hand_hot, the step of the hand
run_hand_hot_examine ==
    /\ pc = "run_hand_hot_examine"
    /\ steps < MaxSteps
    /\ IF ~InRing(cache.ring, cache.hand_hot)
       THEN Fatal("run_hand_hot reads a slot not in the ring")
       ELSE LET token == cache.hand_hot
                mentry == cache.slab[token]
                c1 == IF intersects(mentry.node_type, NODETYPE_HOT)
                      THEN hot_examine(cache, token)
                      ELSE cache
            IN  IF /\ intersects(mentry.node_type, NODETYPE_HOT)
                   /\ ~intersects(mentry.node_type, NODETYPE_REFERENCE)
                   /\ cache.count_hot = 0
                THEN Fatal("count_hot underflow")
                ELSE IF ~next_ok(c1.ring, c1.hand_hot)
                THEN Fatal("next_for_token(hand_hot) of a token not in the ring")
                ELSE Return([c1 EXCEPT !.hand_hot = next_for_token(c1.ring, c1.hand_hot)])
    /\ steps' = steps + 1

\* run_hand_test, lines 229-231
run_hand_test ==
    /\ pc = "run_hand_test"
    /\ steps < MaxSteps
    /\ IF cache.hand_test = cache.hand_cold
       THEN Call("run_hand_cold", "run_hand_test_examine")
       ELSE /\ pc' = "run_hand_test_examine"
            /\ UNCHANGED <<cache, stack, call, hist>>
    /\ steps' = steps + 1

\* shrink_cold_capacity with the bug of no lower clamp
shrink_cold_capacity_unclamped(c) == [c EXCEPT !.cold_capacity = @ - 1]

\* run_hand_test, lines 238-240
shrink_cold_capacity(c) ==
    IF c.cold_capacity > 1
    THEN [c EXCEPT !.cold_capacity = @ - 1]
    ELSE c

\* run_hand_test, lines 232-243: the entry under hand_test, the step of the hand
run_hand_test_examine ==
    /\ pc = "run_hand_test_examine"
    /\ steps < MaxSteps
    /\ IF ~InRing(cache.ring, cache.hand_test)
       THEN Fatal("run_hand_test reads a slot not in the ring")
       ELSE IF intersects(cache.slab[cache.hand_test].node_type, NODETYPE_TEST)
       THEN LET prev == prev_for_token(cache.ring, cache.hand_test)
                hand_test == cache.hand_test
                c1 == meta_del(cache, hand_test)
                c2 == shrink_cold_capacity([c1 EXCEPT !.hand_test = prev,
                                                      !.count_test = @ - 1])
            IN  IF ~prev_ok(cache.ring, cache.hand_test)
                THEN Fatal("prev_for_token(hand_test) fails")
                ELSE IF cache.count_test = 0
                THEN Fatal("count_test underflow")
                ELSE IF ~next_ok(c2.ring, c2.hand_test)
                THEN Fatal("next_for_token(hand_test) of a token not in the ring")
                ELSE /\ Leaves([c2 EXCEPT !.hand_test = next_for_token(c2.ring, c2.hand_test)],
                               call, hist)
                     /\ pc' = Head(stack)
                     /\ stack' = Tail(stack)
       ELSE IF ~next_ok(cache.ring, cache.hand_test)
       THEN Fatal("next_for_token(hand_test) of a token not in the ring")
       ELSE Return([cache EXCEPT !.hand_test = next_for_token(cache.ring, cache.hand_test)])
    /\ steps' = steps + 1

\* ------------------------------------------------------------ specification
\* the constructors, called once
Construct ==
    \E capacity \in 0..MaxCapacity, test_capacity \in 0..MaxTestCapacity :
        new_with_test_capacity(capacity, test_capacity)

ConstructNew == \E capacity \in 0..MaxCapacity : new(capacity)

\* the operations on a cache, called with these keys and values
Use(keys, values) ==
    \/ \E key \in keys, value \in values : insert(key, value)
    \/ \E key \in keys : get(key)
    \/ \E key \in keys : get_mut(key)
    \/ \E key \in keys : contains_key(key)

\* the next block of an insert that has been called; an insert runs at most
\* MaxSteps blocks
Step ==
    \/ evict
    \/ meta_add
    \/ run_hand_cold
    \/ run_hand_cold_trim
    \/ run_hand_cold_advance
    \/ run_hand_cold_rebalance
    \/ run_hand_hot
    \/ run_hand_hot_examine
    \/ run_hand_test
    \/ run_hand_test_examine

\* Every key, one value, both constructors: the entries, the hands, the counts.
Next ==
    \/ Construct
    \/ ConstructNew
    \/ Use(Keys, {1})
    \/ Step

Spec == Init /\ [][Next]_vars

\* Fewer keys, every value, both constructors: what is stored and returned.
ValueNext ==
    \/ Construct
    \/ ConstructNew
    \/ Use(1..NumValueKeys, Values)
    \/ Step

ValueSpec == Init /\ [][ValueNext]_vars

\* The calls of ValueSpec on a cache of new_with_test_capacity, with the
\* history of the last insert of a key and of the inserts that followed it.
FidelityNext ==
    \/ Construct
    \/ Use(1..NumValueKeys, Values)
    \/ Step

FidelitySpec == InitWith("fidelity") /\ [][FidelityNext]_vars

\* The calls of ValueSpec, with the history of the calls since the constructor
\* while they are inserts of keys the index lacks.
ScanSpec == InitWith("scan") /\ [][ValueNext]_vars

\* The calls of Spec, with the history of the calls since the constructor
\* while they are inserts of keys the index lacks.
PureScanSpec == InitWith("scan") /\ [][Next]_vars

\* The calls of Spec, with the history of a key that was HOT when a run of
\* inserts of keys the index lacks began.
ResistSpec == InitWith("resist") /\ [][Next]_vars

\* The calls of Spec, with the history of the keys that were resident when
\* the last insert of a key not resident was called.
EvictSpec == InitWith("evict") /\ [][Next]_vars

\* ------------------------------------------------------------ properties
\* a public operation has returned and the next has not been called
AtRest == pc = "idle"

\* a constructor has returned a cache
Constructed == pc \notin {"start", "error"}

RingTokens == DOMAIN cache.ring.nodes

\* the ring tokens whose slot has the flag
TokensOf(flags) == {t \in RingTokens : intersects(cache.slab[t].node_type, flags)}

\* C1: between public operations the resident entries are at most the
\* capacity and the TEST entries at most the test capacity.
C1_ResidentAndTestWithinCapacity ==
    AtRest => /\ cache.count_hot + cache.count_cold <= cache.capacity
              /\ cache.count_test <= cache.test_capacity

\* C1 happens: a cache with as many residents as its capacity and as many
\* TEST entries as its test capacity, at least one, after an eviction.
C1_Witness ==
    /\ AtRest
    /\ cache.count_hot + cache.count_cold = cache.capacity
    /\ cache.count_test = cache.test_capacity
    /\ cache.test_capacity > 0

\* C2: between public operations each count is the number of ring tokens in
\* that state, and their sum is the length of the ring and the size of the
\* key index.
C2_CountsAreExact ==
    AtRest => /\ cache.count_hot = Cardinality(TokensOf(NODETYPE_HOT))
              /\ cache.count_cold = Cardinality(TokensOf(NODETYPE_COLD))
              /\ cache.count_test = Cardinality(TokensOf(NODETYPE_TEST))
              /\ cache.count_hot + cache.count_cold + cache.count_test = len(cache.ring)
              /\ len(cache.ring) = Cardinality(DOMAIN cache.map)

\* C2 happens: entries of all three states at once.
C2_Witness ==
    /\ AtRest
    /\ cache.count_hot > 0
    /\ cache.count_cold > 0
    /\ cache.count_test > 0

\* C3: between public operations every ring token is in exactly one of the
\* states HOT, COLD, TEST and not EMPTY; HOT and COLD slots hold a value,
\* TEST slots none.
C3_StatesAndValues ==
    AtRest =>
        \A t \in RingTokens :
            LET node == cache.slab[t]
                state == node.node_type \cap NODETYPE_MASK
            IN  /\ state \in {NODETYPE_HOT, NODETYPE_COLD, NODETYPE_TEST}
                /\ state \in {NODETYPE_HOT, NODETYPE_COLD} => node.value # None
                /\ state = NODETYPE_TEST => node.value = None

\* C3 happens: a TEST entry beside a HOT one, and a slot scrubbed by meta_del
\* (EMPTY) outside the ring.
C3_Witness ==
    /\ AtRest
    /\ TokensOf(NODETYPE_TEST) # {}
    /\ TokensOf(NODETYPE_HOT) # {}
    /\ \E t \in DOMAIN cache.slab \ RingTokens :
           cache.slab[t].node_type = NODETYPE_EMPTY

\* C4: the cold target of a constructed cache is at least 1 and at most the
\* capacity, in every state.
C4_ColdTargetInRange ==
    Constructed => /\ 1 <= cache.cold_capacity
                   /\ cache.cold_capacity <= cache.capacity

\* C4 happens: the cold target is down at 1 with TEST entries still to reclaim.
C4_Witness ==
    /\ pc = "run_hand_test_examine"
    /\ cache.cold_capacity = 1
    /\ InRing(cache.ring, cache.hand_test)
    /\ intersects(cache.slab[cache.hand_test].node_type, NODETYPE_TEST)

\* some insert has written a slot
Inserted == \E t \in DOMAIN cache.slab : cache.slab[t] # Uninit

\* C5: between public operations, once an insert has happened, the ring is
\* not empty and each hand is a token of the ring.
C5_HandsInRing ==
    AtRest /\ Inserted =>
        /\ RingTokens # {}
        /\ cache.hand_hot \in RingTokens
        /\ cache.hand_cold \in RingTokens
        /\ cache.hand_test \in RingTokens

\* C5 happens: meta_del has removed a token (its scrubbed slot is outside the
\* ring) and the three hands are on three different tokens.
C5_Witness ==
    /\ AtRest
    /\ \E t \in DOMAIN cache.slab \ RingTokens :
           cache.slab[t].node_type = NODETYPE_EMPTY
    /\ Cardinality({cache.hand_hot, cache.hand_cold, cache.hand_test}) = 3

\* C6: between public operations the key index and the ring correspond one
\* to one.
C6_IndexMatchesRing ==
    AtRest =>
        /\ \A k \in DOMAIN cache.map :
               /\ cache.map[k] \in RingTokens
               /\ cache.slab[cache.map[k]].key = k
        /\ \A t \in RingTokens :
               /\ cache.slab[t].key \in DOMAIN cache.map
               /\ cache.map[cache.slab[t].key] = t
        /\ \A t, u \in RingTokens :
               cache.slab[t].key = cache.slab[u].key => t = u

\* C6 happens: a key that was reclaimed from TEST (its scrubbed slot is left
\* outside the ring) is in the index again, on another token.
C6_Witness ==
    /\ AtRest
    /\ \E t \in DOMAIN cache.slab \ RingTokens :
           /\ cache.slab[t].node_type = NODETYPE_EMPTY
           /\ cache.slab[t].key \in DOMAIN cache.map

\* C7: no run of public operations reaches a fatal condition.
C7_NoFatal == pc # "fatal" /\ cache.fatal = "none"

\* C7 happens: an insert has returned with every slot of the ring taken.
C7_Witness ==
    /\ AtRest
    /\ Inserted
    /\ cache.ring.free = <<>>
    /\ cache.test_capacity > 0

\* an insert has been called and has not returned
InInsert == pc \notin {"start", "error", "idle", "fatal"}

\* C8: every insert that is called returns: the loops of evict and of
\* run_hand_cold and the recursion of the three hand rules end, here within
\* MaxSteps blocks and MaxStack nested calls.
C8_InsertReturns ==
    /\ cache.fatal # "stack overflow"
    /\ InInsert => steps < MaxSteps /\ Len(stack) <= MaxStack

\* C8 happens: run_hand_cold is entered again from run_hand_test, itself
\* called by run_hand_hot in the rebalance loop of run_hand_cold.
C8_Witness ==
    /\ pc = "run_hand_cold"
    /\ Len(stack) >= 4
    /\ stack[1] = "run_hand_test_examine"
    /\ stack[2] = "run_hand_hot_examine"
    /\ stack[3] = "run_hand_cold_rebalance"

\* C9: insert returns true exactly when the key index lacked the key at the
\* call.
C9_InsertReturnsAbsent ==
    AtRest /\ call.op = "insert" => call.res = call.absent

\* C9 happens: insert has returned false for a key that was in the index as
\* a TEST entry (it is HOT now, unreferenced, and was not overwritten).
C9_Witness ==
    /\ AtRest
    /\ call.op = "insert"
    /\ call.res = FALSE
    /\ call.key \in DOMAIN cache.map
    /\ cache.slab[cache.map[call.key]].node_type = NODETYPE_HOT

\* C10: right after insert(k, v) has returned, get(k) returns v, and
\* insert(k, v2) returns false at once and leaves get(k) returning v2.
C10_OverwriteIdempotence ==
    [][AtRest /\ call.op = "insert" =>
          /\ get(call.key) => call'.res = call.value
          /\ \A v2 \in Values :
                 insert(call.key, v2) =>
                     /\ pc' = "idle"
                     /\ call'.op = "insert"
                     /\ call'.res = FALSE
                     /\ call'.key = call.key
                     /\ call'.value = v2
                     /\ call.key \in DOMAIN cache'.map
                     /\ cache'.slab[cache'.map[call.key]].value = v2]_vars

\* C10 happens: insert has overwritten a resident key (the entry is COLD and
\* referenced, insert returned false) with the second value.
C10_Witness ==
    /\ AtRest
    /\ call.op = "insert"
    /\ call.res = FALSE
    /\ call.value = 2
    /\ call.key \in DOMAIN cache.map
    /\ cache.slab[cache.map[call.key]].node_type = NODETYPE_COLD \cup NODETYPE_REFERENCE
    /\ \E t \in RingTokens : cache.slab[t].value = 1

\* C11: after insert(k, v) and at most capacity - 1 inserts of other keys,
\* with no other call in between, get(k) returns v.  The code does not keep
\* to it: the second key inserted into a new cache is under hand_cold (meta_add
\* moves hand_cold back onto it) and is the first to lose its value, when the
\* fourth key comes.
C11_LookupFidelity ==
    [][AtRest /\ hist.key # 0 /\ get(hist.key) => call'.res = hist.value]_vars

\* C12: an insert(k, v) called while k is a TEST entry of the index first
\* takes the TEST token of k out of the ring and k out of the index, and at
\* its return k is resident with the value v in a HOT entry.
C12_NonResidenceMemory ==
    [][/\ pc = "idle" /\ pc' = "evict" /\ call'.test =>
              /\ call'.key \notin DOMAIN cache'.map
              /\ \A t \in DOMAIN cache'.ring.nodes : cache'.slab[t].key # call'.key
              /\ len(cache'.ring) = len(cache.ring) - 1
              /\ cache'.count_test = cache.count_test - 1
       /\ pc' = "idle" /\ call'.op = "insert" /\ call'.test =>
              /\ call'.key \in DOMAIN cache'.map
              /\ InRing(cache'.ring, cache'.map[call'.key])
              /\ cache'.slab[cache'.map[call'.key]].value = call'.value
              /\ cache'.slab[cache'.map[call'.key]].node_type \cap NODETYPE_MASK
                     = NODETYPE_HOT]_vars

\* C12 happens: an insert of a key that was a TEST entry has returned, after
\* an eviction made room for it (another TEST entry is in the ring).
C12_Witness ==
    /\ AtRest
    /\ call.op = "insert"
    /\ call.test
    /\ call.value = 2
    /\ cache.count_test > 0
    /\ call.key \in HotKeys(cache)

\* C13: on a cache of capacity 3 and test capacity 3, after the inserts of
\* four new keys A, B, C, D the key A is a TEST entry without a value; after
\* the insert(A, v) that follows, A is resident with the value v in a HOT
\* entry.  The code does not keep to it: B is the key whose value is dropped,
\* A stays COLD and resident, and insert(A, v) overwrites it in place.
C13_Scenario ==
    AtRest /\ hist.mode = "scan" /\ cache.capacity = 3 /\ cache.test_capacity = 3 =>
        /\ hist.n = 4 =>
               /\ hist.key \in DOMAIN cache.map
               /\ cache.slab[cache.map[hist.key]].value = None
               /\ intersects(cache.slab[cache.map[hist.key]].node_type, NODETYPE_TEST)
        /\ hist.n = -1 /\ hist.value # None =>
               /\ hist.key \in DOMAIN cache.map
               /\ cache.slab[cache.map[hist.key]].value = hist.value
               /\ intersects(cache.slab[cache.map[hist.key]].node_type, NODETYPE_HOT)

\* C14: a key that is HOT when the cold target is Kc is still resident
\* (contains_key returns true) after at most capacity - Kc inserts of keys the
\* index lacked, with no other call in between.  The code does not keep to it:
\* with more HOT entries than capacity - Kc, one insert lets hand_hot turn the
\* key COLD and hand_cold drop its value.
C14_ScanResistance ==
    [][AtRest /\ hist.mode = "resist" /\ hist.key # 0 /\ contains_key(hist.key) =>
           call'.res = TRUE]_vars

\* C15: while every call since the constructor is an insert of a key the
\* index lacks (a key never inserted, or one whose TEST entry was removed,
\* which leaves no trace of it), after each insert from the capacity-th on
\* count_hot + count_cold is the capacity, count_test is at most the test
\* capacity, and the index has count_hot + count_cold + count_test keys.
C15_PureScan ==
    AtRest /\ hist.mode = "scan" /\ hist.n >= cache.capacity =>
        /\ cache.count_hot + cache.count_cold = cache.capacity
        /\ cache.count_test <= cache.test_capacity
        /\ Cardinality(DOMAIN cache.map) =
               cache.count_hot + cache.count_cold + cache.count_test

\* a scan of MaxScan inserts or more that has filled the test capacity
C15_Witness ==
    /\ AtRest
    /\ hist.mode = "scan"
    /\ hist.n = MaxScan
    /\ cache.test_capacity > 0
    /\ cache.count_test = cache.test_capacity
    /\ cache.count_cold = cache.capacity

\* the keys of the index whose entry is HOT or COLD
ResidentKeys ==
    {k \in DOMAIN cache.map :
        intersects(cache.slab[cache.map[k]].node_type, NODETYPE_HOT \cup NODETYPE_COLD)}

\* the step leaves the cache as it is, but for the flags in `set` added to
\* the node_type of the slots in `tokens`
OnlySets(tokens, set) ==
    /\ cache'.capacity = cache.capacity
    /\ cache'.test_capacity = cache.test_capacity
    /\ cache'.cold_capacity = cache.cold_capacity
    /\ cache'.map = cache.map
    /\ cache'.ring = cache.ring
    /\ cache'.hand_hot = cache.hand_hot
    /\ cache'.hand_cold = cache.hand_cold
    /\ cache'.hand_test = cache.hand_test
    /\ cache'.count_hot = cache.count_hot
    /\ cache'.count_cold = cache.count_cold
    /\ cache'.count_test = cache.count_test
    /\ cache'.fatal = cache.fatal
    /\ DOMAIN cache'.slab = DOMAIN cache.slab
    /\ \A t \in DOMAIN cache.slab :
           /\ cache'.slab[t].key = cache.slab[t].key
           /\ cache'.slab[t].value = cache.slab[t].value
           /\ cache'.slab[t].node_type =
                  IF t \in tokens
                  THEN cache.slab[t].node_type \cup set
                  ELSE cache.slab[t].node_type

\* C16: get(key) and get_mut(key) return a value exactly when the key is
\* resident (its entry HOT or COLD), and then the value stored; a hit changes
\* nothing but REFERENCE, which becomes set on that entry; a miss, on an absent
\* key or on a TEST entry, changes nothing: hands, counts, cold target, ring,
\* index, states and values are as before in every case.
C16_LookupFrame ==
    [][\A key \in Keys, op \in {"get", "get_mut"} :
           Lookup(op, key) =>
               /\ call'.res # None <=> key \in ResidentKeys
               /\ key \in ResidentKeys =>
                      /\ call'.res = cache.slab[cache.map[key]].value
                      /\ OnlySets({cache.map[key]}, NODETYPE_REFERENCE)
               /\ key \notin ResidentKeys => OnlySets({}, {})]_vars

\* get_mut has returned the second value, with a TEST entry and an entry
\* without REFERENCE in the ring
C16_Witness ==
    /\ AtRest
    /\ call.op = "get_mut"
    /\ call.res = 2
    /\ cache.count_test > 0
    /\ \E t \in TokensOf(NODETYPE_HOT \cup NODETYPE_COLD) :
           ~intersects(cache.slab[t].node_type, NODETYPE_REFERENCE)
    /\ \E t \in TokensOf(NODETYPE_HOT) :
           intersects(cache.slab[t].node_type, NODETYPE_REFERENCE)

\* C17: contains_key(key) returns true exactly when the key is resident (its
\* entry HOT or COLD; false for an absent key and for a TEST entry) and leaves
\* the whole cache as it is, REFERENCE of every entry included.
C17_ContainsKeyFrame ==
    [][\A key \in Keys :
           contains_key(key) =>
               /\ call'.res = (key \in ResidentKeys)
               /\ cache' = cache]_vars

\* contains_key has returned true with a TEST entry in the ring and
\* REFERENCE set on no entry
C17_Witness ==
    /\ AtRest
    /\ call.op = "contains_key"
    /\ call.res = TRUE
    /\ cache.count_test > 0
    /\ TokensOf(NODETYPE_REFERENCE) = {}

\* the step is a constructor called with this capacity and test capacity
\* that did as construction must: an error and no cache when the capacity is
\* under 3, else a cache with an empty ring and index, counts of zero and the
\* cold target at the capacity
ConstructedAs(capacity, test_capacity) ==
    IF capacity < 3
    THEN /\ pc' = "error"
         /\ cache' = NoCache
    ELSE /\ pc' = "idle"
         /\ cache'.capacity = capacity
         /\ cache'.test_capacity = test_capacity
         /\ cache'.cold_capacity = capacity
         /\ len(cache'.ring) = 0
         /\ cache'.ring.head = TOKEN_THUMBSTONE
         /\ cache'.ring.tail = TOKEN_THUMBSTONE
         /\ DOMAIN cache'.map = {}
         /\ cache'.count_hot = 0
         /\ cache'.count_cold = 0
         /\ cache'.count_test = 0
         /\ \A t \in DOMAIN cache'.slab : cache'.slab[t] = Uninit

\* C18: new_with_test_capacity(C, T) and new(C) return an error exactly when
\* C < 3, whatever T; when C >= 3 they return a cache with an empty ring and
\* index, the three counts zero and the cold target C; and new(C) returns
\* what new_with_test_capacity(C, C) returns.
C18_Construction ==
    [][\A capacity \in 0..MaxCapacity :
           /\ \A test_capacity \in 0..MaxCapacity :
                  new_with_test_capacity(capacity, test_capacity) =>
                      ConstructedAs(capacity, test_capacity)
           /\ new(capacity) => ConstructedAs(capacity, capacity)]_vars

\* new(MaxCapacity) has returned a cache
C18_Witness ==
    /\ pc = "idle"
    /\ call.op = "new"
    /\ cache.capacity = MaxCapacity
    /\ cache.test_capacity = MaxCapacity

\* the entry of token t is HOT, or COLD with REFERENCE set
Shielded(t) ==
    \/ intersects(cache.slab[t].node_type, NODETYPE_HOT)
    \/ /\ intersects(cache.slab[t].node_type, NODETYPE_COLD)
       /\ intersects(cache.slab[t].node_type, NODETYPE_REFERENCE)

\* the entry of token t is COLD with REFERENCE clear
Exposed(t) ==
    /\ intersects(cache.slab[t].node_type, NODETYPE_COLD)
    /\ ~intersects(cache.slab[t].node_type, NODETYPE_REFERENCE)

\* A step that leaves the ring its length leaves every token its name: the
\* shielded entries are still in the ring with a value, neither TEST nor
\* EMPTY, and an entry that lost its value was exposed, under hand_cold, in
\* the block of run_hand_cold that examines the entry.
KeepsShieldedTokens ==
    \A t \in RingTokens :
        /\ Shielded(t) =>
               /\ t \in DOMAIN cache'.ring.nodes
               /\ cache'.slab[t].value # None
               /\ ~intersects(cache'.slab[t].node_type,
                              NODETYPE_TEST \cup NODETYPE_EMPTY)
        /\ cache.slab[t].value # None /\ cache'.slab[t].value = None =>
               /\ pc = "run_hand_cold"
               /\ t = cache.hand_cold
               /\ Exposed(t)

\* A step that adds or removes a token may rename the others: for each state
\* and value, as many entries with a value after the step as before it, or
\* more.
KeepsResidentEntries ==
    \A t \in RingTokens :
        cache.slab[t].value # None =>
            Cardinality({u \in RingTokens :
                            /\ cache.slab[u].node_type = cache.slab[t].node_type
                            /\ cache.slab[u].value = cache.slab[t].value})
              <= Cardinality({u \in DOMAIN cache'.ring.nodes :
                                 /\ cache'.slab[u].node_type = cache.slab[t].node_type
                                 /\ cache'.slab[u].value = cache.slab[t].value})

\* C19: no step turns an entry that is HOT, or COLD with REFERENCE set, into
\* a TEST entry or takes it from the ring; an entry loses its value only
\* where hand_cold examines it while it is COLD with REFERENCE clear; and a
\* COLD entry with REFERENCE set that hand_cold examines is HOT without
\* REFERENCE after the step.
C19_OnlyHandColdEvicts ==
    [][/\ Constructed /\ len(cache'.ring) = len(cache.ring) => KeepsShieldedTokens
       /\ Constructed /\ len(cache'.ring) # len(cache.ring) => KeepsResidentEntries
       /\ (/\ pc = "run_hand_cold"
           /\ InRing(cache.ring, cache.hand_cold)
           /\ intersects(cache.slab[cache.hand_cold].node_type, NODETYPE_COLD)
           /\ intersects(cache.slab[cache.hand_cold].node_type, NODETYPE_REFERENCE))
          => cache'.slab[cache.hand_cold].node_type = NODETYPE_HOT]_vars

\* hand_cold has examined its entry, which is HOT without REFERENCE, in a
\* full cache that holds a TEST entry and a COLD entry with REFERENCE set
C19_Witness ==
    /\ pc = "run_hand_cold_advance"
    /\ cache.slab[cache.hand_cold].node_type = NODETYPE_HOT
    /\ cache.count_hot + cache.count_cold = cache.capacity
    /\ cache.count_test > 0
    /\ \E t \in TokensOf(NODETYPE_COLD) :
           intersects(cache.slab[t].node_type, NODETYPE_REFERENCE)

\* C20: an insert of a key that is not resident (absent, or a TEST entry),
\* called with count_hot + count_cold at the capacity, returns with exactly
\* one of the keys that were resident at the call no longer resident and with
\* count_hot + count_cold at the capacity.  The code does not keep to it: a
\* run_hand_cold entered again from run_hand_test, inside the rebalance loop
\* of the first, drops the value of a second entry.
C20_EvictsExactlyOne ==
    AtRest /\ hist.mode = "evict" /\ call.op = "insert" /\ hist.n = cache.capacity =>
        /\ Cardinality(hist.keys \ Residents(cache)) = 1
        /\ cache.count_hot + cache.count_cold = cache.capacity

====
